---- MODULE Spec2Model ----
(***************************************************************************)
(* Model of circuitpython/cpx/cpgame.py: a cooperative event loop with     *)
(* periodic callbacks (tick / every), one-shot timers (at / after) and     *)
(* debounced button callbacks (on / Gamepad), driven by start().           *)
(*                                                                         *)
(* Time is counted in units of 20 ms, so that the polling period 0.02 s of *)
(* the Gamepad task is one unit.  A Python dict is modelled as a sequence  *)
(* of entries in insertion order, a list or tuple as a sequence.           *)
(***************************************************************************)
EXTENDS Integers, Sequences, FiniteSets, TLC

\* ---------------------------------------------------------------- bounds
MaxTime == 4        \* the monotonic clock runs from 0 to MaxTime
MaxRegs == 2        \* registration calls (tick, every, at, after, on) in a run

\* ---------------------------------------------------------------- inputs
Intervals == {1, 2}       \* every(interval)
Targets == {0, 2}         \* at(target, fn)
Delays == {0, 1}          \* after(target, fn)

\* ------------------------------------------------------------- constants
DOWN == 1
UP == 2
PROPOGATE == "PROPOGATE"
None == "None"
Other == "Other"          \* any returned value that is neither sentinel nor None
PollInterval == 1         \* every(0.02): one unit of 20 ms

Handlers == {"f", "g"}    \* application callbacks
GamepadFn == "Gamepad"    \* the Gamepad() object start() registers
Pins == {"A", "B"}

VARIABLES
    RUNNING,      \* module global RUNNING
    INTERVALS,    \* dict fn -> (interval, last_called), as a sequence of entries
    TIMERS,       \* dict fn -> target, as a sequence of entries
    BUTTONS,      \* list of pins
    DIOS,         \* list of DigitalInOut handles
    PRESSES,      \* list of (fn, buttons, action)
    pad,          \* the Gamepad object: down (tuple), pressed (list)
    clock,        \* time.monotonic()
    pc,           \* position of the program in start()
    now,          \* local 'now' of start()
    next_target,  \* local 'next_target' of start()
    it,           \* keys the running dict iterator has still to visit
    itUsed,       \* size of the dict when the iterator was created
    itMod,        \* a key was inserted into the dict under iteration
    checkedIter,  \* the interpreter detects a dict mutated under iteration
    nRegs,        \* registration calls made so far
    ev,           \* what the last step did (observation)
    pending,      \* items due at the sampled 'now', not fired or replaced since
    lastInv,      \* 'now' of the last periodic invocation since registration
    firedIds,     \* registrations of one-shot timers that have fired
    everInvoked,  \* some handler has been invoked
    everSlept,    \* time.sleep has been called
    stopReq,      \* stop() has been called from inside a handler
    calledNow,    \* the handlers the running cycle has called so far
    hist          \* the polls of the Gamepad so far: raw sample, held before

vars == <<RUNNING, INTERVALS, TIMERS, BUTTONS, DIOS, PRESSES, pad, clock, pc,
          now, next_target, it, itUsed, itMod, checkedIter, nRegs, ev,
          pending, lastInv, firedIds, everInvoked, everSlept, stopReq,
          calledNow, hist>>

\* ------------------------------------------------------------ dict, list
InSeq(x, s) == \E i \in 1..Len(s) : s[i] = x
ToSet(s) == {s[i] : i \in 1..Len(s)}
KeySet(d) == {d[i].fn : i \in 1..Len(d)}
Keys(d) == [i \in 1..Len(d) |-> d[i].fn]
Lookup(d, fn) == d[CHOOSE i \in 1..Len(d) : d[i].fn = fn]
Store(d, e) ==
    IF e.fn \in KeySet(d)
    THEN [i \in 1..Len(d) |-> IF d[i].fn = e.fn THEN e ELSE d[i]]
    ELSE Append(d, e)
Delete(d, fn) == SelectSeq(d, LAMBDA e : e.fn # fn)
SeqsOf(S) ==
    {s \in UNION {[1..n -> S] : n \in 0..Cardinality(S)} :
        \A i, j \in 1..Len(s) : i # j => s[i] # s[j]}
Suffixes(s) == {SubSeq(s, i, Len(s)) : i \in 1..(Len(s) + 1)}
MinOf(S) == CHOOSE x \in S : \A y \in S : x <= y

\* ------------------------------------------------------------ observation
NoEv ==
    [kind |-> "none", fn |-> "", id |-> 0, target |-> 0, arg |-> 0,
     op |-> "", raw |-> <<>>, prevDown |-> <<>>, prevPressed |-> <<>>,
     freshDown |-> <<>>, freshUp |-> <<>>, emitted |-> FALSE,
     invoked |-> <<>>, again |-> FALSE, twice |-> FALSE,
     reg |-> [fn |-> "", arg |-> 0]]
Ev(kind, fn, id, target, op, arg) ==
    [NoEv EXCEPT !.kind = kind, !.fn = fn, !.id = id, !.target = target,
                 !.op = op, !.arg = arg]

\* ------------------------------------------------- registration functions
\* The functions act on the module globals, passed as a record g.
Globals == [RUNNING |-> RUNNING, INTERVALS |-> INTERVALS, TIMERS |-> TIMERS,
            nRegs |-> nRegs]

tick(g, fn) ==
    [g EXCEPT !.INTERVALS = Store(@, [fn |-> fn, interval |-> 0, last_called |-> 0]),
              !.nRegs = @ + 1]

every(g, interval, fn) ==
    [g EXCEPT !.INTERVALS = Store(@, [fn |-> fn, interval |-> interval, last_called |-> 0]),
              !.nRegs = @ + 1]

at(g, target, fn) ==
    [g EXCEPT !.TIMERS = Store(@, [fn |-> fn, target |-> target, id |-> g.nRegs + 1]),
              !.nRegs = @ + 1]

\* Line 57 without the clock: the delay is stored as the deadline.
afterDelay(g, target, fn, monotonic) ==
    [g EXCEPT !.TIMERS = Store(@, [fn |-> fn, target |-> target, id |-> g.nRegs + 1]),
              !.nRegs = @ + 1]

after(g, target, fn, monotonic) ==
    [g EXCEPT !.TIMERS = Store(@, [fn |-> fn, target |-> monotonic + target, id |-> g.nRegs + 1]),
              !.nRegs = @ + 1]

stop(g) == [g EXCEPT !.RUNNING = FALSE]

\* What an application handler does when it is called: nothing, stop(), a
\* fault, or a registration call.
Effects ==
    [op : {"nop", "stop", "raise"}, fn : {""}, arg : {0}]
    \cup [op : {"at"}, fn : Handlers, arg : Targets]
    \cup [op : {"after"}, fn : Handlers, arg : Delays]
    \cup [op : {"every"}, fn : Handlers, arg : Intervals]
    \cup [op : {"tick"}, fn : Handlers, arg : {0}]

IsReg(e) == e.op \in {"at", "after", "every", "tick"}

Apply(e, g) ==
    CASE e.op = "stop" -> stop(g)
      [] e.op = "at" -> at(g, e.arg, e.fn)
      [] e.op = "after" -> after(g, e.arg, e.fn, clock)
      [] e.op = "every" -> every(g, e.arg, e.fn)
      [] e.op = "tick" -> tick(g, e.fn)
      [] OTHER -> g

SetGlobals(g) ==
    /\ RUNNING' = g.RUNNING
    /\ INTERVALS' = g.INTERVALS
    /\ TIMERS' = g.TIMERS
    /\ nRegs' = g.nRegs

\* The entry a registration call replaces: what was due under the old entry
\* is no longer pending.
Replaced(e) ==
    CASE e.op \in {"every", "tick"} -> {<<"P", e.fn>>}
      [] e.op \in {"at", "after"} -> {<<"T", e.fn>>}
      [] OTHER -> {}

\* lastInv forgets a periodic task that is registered again.
Forget(e, l) ==
    IF e.op \in {"every", "tick"} THEN [l EXCEPT ![e.fn] = -1] ELSE l

\* ------------------------------------------------------------------ Init
Init ==
    /\ RUNNING = TRUE
    /\ INTERVALS = <<>>
    /\ TIMERS = <<>>
    /\ BUTTONS = <<>>
    /\ DIOS = <<>>
    /\ PRESSES = <<>>
    /\ pad = [down |-> <<>>, pressed |-> <<>>]
    /\ clock = 0
    /\ pc = "idle"
    /\ now = 0
    /\ next_target = 0
    /\ it = <<>>
    /\ itUsed = 0
    /\ itMod = FALSE
    /\ checkedIter \in BOOLEAN
    /\ nRegs = 0
    /\ ev = NoEv
    /\ pending = {}
    /\ lastInv = [h \in Handlers \cup {GamepadFn} |-> -1]
    /\ firedIds = {}
    /\ everInvoked = FALSE
    /\ everSlept = FALSE
    /\ stopReq = FALSE
    /\ calledNow = {}
    /\ hist = <<>>

\* ------------------------------------------------------ calls before start
CanReg == nRegs < MaxRegs

CallTick(fn) ==
    /\ pc = "idle" /\ CanReg
    /\ SetGlobals(tick(Globals, fn))
    /\ lastInv' = [lastInv EXCEPT ![fn] = -1]
    /\ ev' = Ev("tick", fn, 0, 0, "", 0)
    /\ UNCHANGED <<BUTTONS, DIOS, PRESSES, pad, clock, pc, now, next_target,
                   it, itUsed, itMod, checkedIter, calledNow, hist, pending, firedIds,
                   everInvoked, everSlept, stopReq>>

CallEvery(interval, fn) ==
    /\ pc = "idle" /\ CanReg
    /\ SetGlobals(every(Globals, interval, fn))
    /\ lastInv' = [lastInv EXCEPT ![fn] = -1]
    /\ ev' = Ev("every", fn, 0, 0, "", interval)
    /\ UNCHANGED <<BUTTONS, DIOS, PRESSES, pad, clock, pc, now, next_target,
                   it, itUsed, itMod, checkedIter, calledNow, hist, pending, firedIds,
                   everInvoked, everSlept, stopReq>>

CallAt(target, fn) ==
    /\ pc = "idle" /\ CanReg
    /\ SetGlobals(at(Globals, target, fn))
    /\ ev' = Ev("at", fn, nRegs + 1, target, "", target)
    /\ UNCHANGED <<BUTTONS, DIOS, PRESSES, pad, clock, pc, now, next_target,
                   it, itUsed, itMod, checkedIter, calledNow, hist, pending, lastInv, firedIds,
                   everInvoked, everSlept, stopReq>>

CallAfter(target, fn) ==
    /\ pc = "idle" /\ CanReg
    /\ SetGlobals(after(Globals, target, fn, clock))
    /\ ev' = Ev("after", fn, nRegs + 1, clock + target, "", target)
    /\ UNCHANGED <<BUTTONS, DIOS, PRESSES, pad, clock, pc, now, next_target,
                   it, itUsed, itMod, checkedIter, calledNow, hist, pending, lastInv, firedIds,
                   everInvoked, everSlept, stopReq>>

\* The chords on() is called with: none, one or two buttons, a button twice.
Chords == {<<>>, <<"A">>, <<"B">>, <<"A", "B">>, <<"A", "A">>}

DigitalInOut(button) == [pin |-> button, direction |-> "INPUT", pull |-> "DOWN"]

\* Lines 62-68 without the test of line 63: every button gets a handle.
AddAll(buttons, B, D) ==
    [BUTTONS |-> B \o buttons,
     DIOS |-> D \o [i \in 1..Len(buttons) |-> DigitalInOut(buttons[i])]]

\* The loop of on() over its buttons: an unknown button gets a handle.
RECURSIVE AddButtons(_, _, _)
AddButtons(buttons, B, D) ==
    IF buttons = <<>> THEN [BUTTONS |-> B, DIOS |-> D]
    ELSE IF InSeq(Head(buttons), B)
         THEN AddButtons(Tail(buttons), B, D)
         ELSE AddButtons(Tail(buttons), Append(B, Head(buttons)),
                         Append(D, DigitalInOut(Head(buttons))))

\* @on(...) decorates a function definition: each binding gets the function
\* defined under it, a new function object.
Decorated == <<"h1", "h2", "h3", "h4">>

CallOn(buttons, action, fn) ==
    /\ pc = "idle" /\ CanReg
    /\ fn = Decorated[Len(PRESSES) + 1]
    /\ LET r == AddButtons(buttons, BUTTONS, DIOS) IN
        /\ BUTTONS' = r.BUTTONS
        /\ DIOS' = r.DIOS
    /\ PRESSES' = Append(PRESSES, [fn |-> fn, buttons |-> buttons, action |-> action])
    /\ nRegs' = nRegs + 1
    /\ ev' = [Ev("on", fn, 0, 0, "", action) EXCEPT !.raw = buttons]
    /\ UNCHANGED <<RUNNING, INTERVALS, TIMERS, pad, clock, pc, now, next_target,
                   it, itUsed, itMod, checkedIter, calledNow, hist, pending, lastInv, firedIds,
                   everInvoked, everSlept, stopReq>>

CallStop ==
    /\ pc = "idle" /\ RUNNING
    /\ SetGlobals(stop(Globals))
    /\ ev' = Ev("stop", "", 0, 0, "", 0)
    /\ UNCHANGED <<BUTTONS, DIOS, PRESSES, pad, clock, pc, now, next_target,
                   it, itUsed, itMod, checkedIter, calledNow, hist, pending, lastInv, firedIds,
                   everInvoked, everSlept, stopReq>>

\* ----------------------------------------------------------------- start
\* start(), lines 82-83: with button bindings, a Gamepad is polled every 0.02 s.
Start ==
    /\ pc = "idle"
    /\ pc' = "guard"
    /\ IF PRESSES # <<>>
       THEN /\ INTERVALS' = Store(INTERVALS, [fn |-> GamepadFn,
                                   interval |-> PollInterval, last_called |-> 0])
            /\ pad' = [down |-> <<>>, pressed |-> <<>>]
       ELSE UNCHANGED <<INTERVALS, pad>>
    /\ ev' = Ev("start", "", 0, 0, "", 0)
    /\ UNCHANGED <<RUNNING, TIMERS, BUTTONS, DIOS, PRESSES, clock, now,
                   next_target, it, itUsed, itMod, checkedIter, calledNow, hist, nRegs, pending,
                   lastInv, firedIds, everInvoked, everSlept, stopReq>>

\* Line 86 with 'or' for 'and'.
EitherEmpty(T, I) == T = <<>> \/ I = <<>>

\* Line 86: the guard of the outer loop.
NothingRegistered(T, I) == T = <<>> /\ I = <<>>

\* Lines 93 and 99: an entry is due.
Due(target, n) == target <= n

\* The order in which a dict iterator yields the keys: insertion order, or
\* (hash table) an order the program does not control.
IterOrder(d) == IF checkedIter THEN {Keys(d)} ELSE {s \in SeqsOf(KeySet(d)) : Len(s) = Len(d)}

DuePeriodic(I, n) ==
    {<<"P", I[i].fn>> : i \in {j \in 1..Len(I) : Due(I[j].last_called + I[j].interval, n)}}
DueTimers(T, n) ==
    {<<"T", T[i].fn>> : i \in {j \in 1..Len(T) : Due(T[j].target, n)}}

\* Lines 86-88: nothing registered, start() returns 0.
GuardHalt ==
    /\ pc = "guard"
    /\ NothingRegistered(TIMERS, INTERVALS)
    /\ pc' = "done"
    /\ ev' = Ev("halt", "", 0, 0, "", 0)
    /\ UNCHANGED <<RUNNING, INTERVALS, TIMERS, BUTTONS, DIOS, PRESSES, pad,
                   clock, now, next_target, it, itUsed, itMod, checkedIter, calledNow, hist,
                   nRegs, pending, lastInv, firedIds, everInvoked, everSlept,
                   stopReq>>

\* Lines 86, 90, 91: the guard passes, 'now' is sampled, the loop over
\* INTERVALS.items() begins.
BeginCycle ==
    /\ pc = "guard"
    /\ ~NothingRegistered(TIMERS, INTERVALS)
    /\ now' = clock
    /\ pc' = "intervals"
    /\ it' \in IterOrder(INTERVALS)
    /\ itUsed' = Len(INTERVALS)
    /\ itMod' = FALSE
    /\ pending' = DuePeriodic(INTERVALS, clock) \cup DueTimers(TIMERS, clock)
    /\ calledNow' = {}
    /\ ev' = Ev("begin", "", 0, 0, "", 0)
    /\ UNCHANGED <<RUNNING, INTERVALS, TIMERS, BUTTONS, DIOS, PRESSES, pad,
                   clock, next_target, checkedIter, hist, nRegs, lastInv,
                   firedIds, everInvoked, everSlept, stopReq>>

\* The dict under iteration.
IterDict == IF pc = "intervals" THEN INTERVALS ELSE TIMERS

\* A checking interpreter raises RuntimeError from the iterator when the
\* dict changed size, and may raise when keys were inserted.
IterMustRaise == checkedIter /\ Len(IterDict) # itUsed
IterMayRaise == checkedIter /\ itMod

IterError ==
    /\ pc \in {"intervals", "timers"}
    /\ IterMustRaise \/ IterMayRaise
    /\ pc' = "error"
    /\ ev' = Ev("iterror", "", 0, 0, "RuntimeError", 0)
    /\ UNCHANGED <<RUNNING, INTERVALS, TIMERS, BUTTONS, DIOS, PRESSES, pad,
                   clock, now, next_target, it, itUsed, itMod, checkedIter, calledNow, hist,
                   nRegs, pending, lastInv, firedIds, everInvoked, everSlept,
                   stopReq>>

\* -------------------------------------------------------------- Gamepad
\* Line 122: the buttons whose handle reads high, in BUTTONS order.
RECURSIVE Sample(_, _, _, _)
Sample(B, D, levels, i) ==
    IF i > Len(B) \/ i > Len(D) THEN <<>>
    ELSE (IF D[i].pin \in levels THEN <<B[i]>> ELSE <<>>)
         \o Sample(B, D, levels, i + 1)

\* Line 123 with the test left out.
NeverSettling(down, prev) == FALSE

\* Line 123 trusting at once a sample with more buttons down than the last.
SettlingOnRelease(down, prev) == down # prev /\ Len(down) <= Len(prev)

\* Line 123: the sample differs from the previous one.
Settling(down, prev) == down # prev

\* Lines 127-128.
FreshDown(down, pressed) == SelectSeq(down, LAMBDA b : ~InSeq(b, pressed))
FreshUp(down, pressed) == SelectSeq(pressed, LAMBDA b : ~InSeq(b, down))

\* list.remove(x): drops the first occurrence.
RECURSIVE Remove(_, _)
Remove(s, x) ==
    IF s = <<>> THEN <<>>
    ELSE IF Head(s) = x THEN Tail(s) ELSE <<Head(s)>> \o Remove(Tail(s), x)

RECURSIVE RemoveAll(_, _)
RemoveAll(s, xs) ==
    IF xs = <<>> THEN s ELSE RemoveAll(Remove(s, Head(xs)), Tail(xs))

\* Lines 130-137 without the removal of the released buttons.
ExtendOnly(pressed, fresh_down, fresh_up) ==
    IF fresh_down # <<>> THEN pressed \o fresh_down ELSE pressed

\* Lines 130-137: self.pressed after the update.
UpdatePressed(pressed, fresh_down, fresh_up) ==
    RemoveAll(IF fresh_down # <<>> THEN pressed \o fresh_down ELSE pressed,
              fresh_up)

\* Lines 143 and 145 with any() for all().
MatchesAny(b, fresh_down, fresh_up) ==
    \/ b.action = DOWN /\ \E i \in 1..Len(b.buttons) : InSeq(b.buttons[i], fresh_down)
    \/ b.action = UP /\ \E i \in 1..Len(b.buttons) : InSeq(b.buttons[i], fresh_up)

\* Lines 143 and 145: the binding's handler is called.
All(buttons, fresh) == \A i \in 1..Len(buttons) : InSeq(buttons[i], fresh)
Matches(b, fresh_down, fresh_up) ==
    \/ b.action = DOWN /\ All(b.buttons, fresh_down)
    \/ b.action # DOWN /\ b.action = UP /\ All(b.buttons, fresh_up)

\* Line 150 without the break, and line 150 taking None for the sentinel.
NeverStops(v) == FALSE
StopsOnOther(v) == v \notin {PROPOGATE, None}

\* Line 150: the value ends the loop over PRESSES.
StopsDispatch(v) == v # PROPOGATE

\* What a button handler does when called: it returns the sentinel, returns
\* None (also after calling stop()), returns another value, or faults.
ButtonBehaviours == {"PROPOGATE", "None", "Other", "stop", "raise"}
Returned(b) ==
    CASE b = "PROPOGATE" -> PROPOGATE
      [] b = "Other" -> Other
      [] OTHER -> None

\* Lines 142-151: the calls made by the loop over PRESSES from binding i on,
\* each with the index of its binding and what the handler did.
RECURSIVE Dispatch(_, _, _, _, _)
Dispatch(P, i, fresh_down, fresh_up, beh) ==
    IF i > Len(P) THEN <<>>
    ELSE IF Matches(P[i], fresh_down, fresh_up)
         THEN <<[idx |-> i, beh |-> beh[i]]>>
              \o (IF beh[i] = "raise" \/ StopsDispatch(Returned(beh[i]))
                  THEN <<>>
                  ELSE Dispatch(P, i + 1, fresh_down, fresh_up, beh))
         ELSE IF StopsDispatch(PROPOGATE) THEN <<>>
              ELSE Dispatch(P, i + 1, fresh_down, fresh_up, beh)

\* Gamepad.__call__, lines 121-151, on the Gamepad g with the pins in levels
\* high and the handlers behaving as beh.
GamepadCall(g, levels, beh) ==
    LET down == Sample(BUTTONS, DIOS, levels, 1)
        fresh_down == FreshDown(down, g.pressed)
        fresh_up == FreshUp(down, g.pressed)
        pressed == UpdatePressed(g.pressed, fresh_down, fresh_up)
        calls == Dispatch(PRESSES, 1, fresh_down, fresh_up, beh)
    IN  IF Settling(down, g.down)
        THEN [pad |-> [g EXCEPT !.down = down], raw |-> down,
              freshDown |-> <<>>, freshUp |-> <<>>, emitted |-> FALSE,
              calls |-> <<>>]
        ELSE IF fresh_down = <<>> /\ fresh_up = <<>>
        THEN [pad |-> [g EXCEPT !.pressed = pressed], raw |-> down,
              freshDown |-> fresh_down, freshUp |-> fresh_up,
              emitted |-> FALSE, calls |-> <<>>]
        ELSE [pad |-> [g EXCEPT !.pressed = pressed], raw |-> down,
              freshDown |-> fresh_down, freshUp |-> fresh_up,
              emitted |-> TRUE, calls |-> calls]

\* The behaviours to choose from at a poll: one for each handler the poll can
\* call (a handler that is not called does nothing).
Behaviours(g, levels) ==
    LET down == Sample(BUTTONS, DIOS, levels, 1)
        fresh_down == FreshDown(down, g.pressed)
        fresh_up == FreshUp(down, g.pressed)
    IN  {beh \in [1..Len(PRESSES) -> ButtonBehaviours] :
            \A i \in 1..Len(PRESSES) :
                (Settling(down, g.down) \/ ~Matches(PRESSES[i], fresh_down, fresh_up))
                    => beh[i] = "None"}

\* The pins the program reads.
TrackedPins == {DIOS[i].pin : i \in 1..Len(DIOS)}

Raised(calls) == \E i \in 1..Len(calls) : calls[i].beh = "raise"
Stopped(calls) == \E i \in 1..Len(calls) : calls[i].beh = "stop"

\* ------------------------------------------------- the loop over INTERVALS
\* Lines 94 and 101 with the call wrapped in a try/except that drops the fault.
Swallowed(e) == FALSE

\* Lines 94 and 101: fn(now) is called bare, a fault in it leaves start().
Faults(e) == e.op = "raise"

IterHead == Lookup(IterDict, Head(it))
CanIter == pc \in {"intervals", "timers"} /\ ~IterMustRaise /\ it # <<>>

\* Line 95 with last_called left as it was.
FiredStale(I, fn, interval, n) ==
    Store(I, [fn |-> fn, interval |-> interval,
              last_called |-> Lookup(I, fn).last_called])

\* Line 95: the entry is stored with the time of this call.
Fired(I, fn, interval, n) ==
    Store(I, [fn |-> fn, interval |-> interval, last_called |-> n])

\* The keys left to the iterator after a key k was inserted into a hash
\* table that may have been rebuilt.
AfterRehash(d) == SeqsOf(KeySet(d))

\* Lines 91-93: the entry is not due.
IntervalsSkip ==
    /\ pc = "intervals" /\ CanIter
    /\ ~Due(IterHead.last_called + IterHead.interval, now)
    /\ it' = Tail(it)
    /\ ev' = Ev("skip", Head(it), 0, IterHead.last_called + IterHead.interval, "", 0)
    /\ UNCHANGED <<RUNNING, INTERVALS, TIMERS, BUTTONS, DIOS, PRESSES, pad,
                   clock, pc, now, next_target, itUsed, itMod, checkedIter, calledNow, hist,
                   nRegs, pending, lastInv, firedIds, everInvoked, everSlept,
                   stopReq>>

\* Lines 91-96: a due application handler is called.
IntervalsFire(e) ==
    /\ pc = "intervals" /\ CanIter
    /\ Head(it) \in Handlers
    /\ Due(IterHead.last_called + IterHead.interval, now)
    /\ IsReg(e) => CanReg
    /\ LET fn == Head(it)
           interval == IterHead.interval
           g == Apply(e, Globals)
           inserted == KeySet(g.INTERVALS) # KeySet(INTERVALS)
       IN  /\ ev' = [Ev("periodic", fn, 0, interval, e.op, lastInv[fn])
                       EXCEPT !.reg = [fn |-> e.fn, arg |-> e.arg],
                              !.twice = (<<"P", fn>> \in calledNow)]
           /\ everInvoked' = TRUE
           /\ calledNow' = calledNow \cup {<<"P", fn>>}
           /\ pending' = pending \ ({<<"P", fn>>} \cup Replaced(e))
           /\ IF Faults(e)
              THEN /\ pc' = "error"
                   /\ UNCHANGED <<RUNNING, INTERVALS, TIMERS, nRegs, it, itMod,
                                  lastInv, stopReq>>
              ELSE /\ pc' = pc
                   /\ SetGlobals([g EXCEPT !.INTERVALS = Fired(@, fn, interval, now)])
                   /\ lastInv' = [Forget(e, lastInv) EXCEPT ![fn] = now]
                   /\ stopReq' = (stopReq \/ e.op = "stop")
                   /\ itMod' = (itMod \/ inserted)
                   /\ IF inserted /\ ~checkedIter
                      THEN it' \in AfterRehash(g.INTERVALS)
                      ELSE it' = Tail(it)
    /\ UNCHANGED <<BUTTONS, DIOS, PRESSES, pad, clock, now, next_target,
                   itUsed, checkedIter, hist, firedIds, everSlept>>

\* Lines 91-96 for the Gamepad task: the pins are sampled and the button
\* handlers dispatched.
IntervalsPoll(levels, beh) ==
    /\ pc = "intervals" /\ CanIter
    /\ Head(it) = GamepadFn
    /\ Due(IterHead.last_called + IterHead.interval, now)
    /\ LET interval == IterHead.interval
           r == GamepadCall(pad, levels, beh)
       IN  /\ ev' = [Ev("poll", GamepadFn, 0, interval, "", lastInv[GamepadFn])
                       EXCEPT !.raw = r.raw, !.prevDown = pad.down,
                              !.prevPressed = pad.pressed,
                              !.freshDown = r.freshDown, !.freshUp = r.freshUp,
                              !.emitted = r.emitted, !.invoked = r.calls,
                              !.twice = (<<"P", GamepadFn>> \in calledNow)]
           /\ pad' = r.pad
           /\ calledNow' = calledNow \cup {<<"P", GamepadFn>>}
           /\ hist' = Append(hist, [raw |-> r.raw, held |-> pad.pressed,
                                    called |-> r.calls # <<>>])
           /\ everInvoked' = TRUE
           /\ pending' = pending \ {<<"P", GamepadFn>>}
           /\ RUNNING' = (RUNNING /\ ~Stopped(r.calls))
           /\ stopReq' = (stopReq \/ Stopped(r.calls))
           /\ IF Raised(r.calls)
              THEN /\ pc' = "error"
                   /\ UNCHANGED <<INTERVALS, it, lastInv>>
              ELSE /\ pc' = pc
                   /\ INTERVALS' = Fired(INTERVALS, GamepadFn, interval, now)
                   /\ lastInv' = [lastInv EXCEPT ![GamepadFn] = now]
                   /\ it' = Tail(it)
    /\ UNCHANGED <<TIMERS, BUTTONS, DIOS, PRESSES, clock, now, next_target,
                   itUsed, itMod, checkedIter, nRegs, firedIds, everSlept>>

\* Line 98: the loop over INTERVALS is over, the loop over TIMERS.items()
\* begins.
IntervalsEnd ==
    /\ pc = "intervals" /\ ~IterMustRaise /\ it = <<>>
    /\ pc' = "timers"
    /\ it' \in IterOrder(TIMERS)
    /\ itUsed' = Len(TIMERS)
    /\ itMod' = FALSE
    /\ ev' = Ev("loopend", "", 0, 0, "", 0)
    /\ UNCHANGED <<RUNNING, INTERVALS, TIMERS, BUTTONS, DIOS, PRESSES, pad,
                   clock, now, next_target, checkedIter, calledNow, hist, nRegs, pending,
                   lastInv, firedIds, everInvoked, everSlept, stopReq>>

\* ---------------------------------------------------- the loop over TIMERS
\* Line 100 left out.
KeepTimer(T, fn) == T

\* Line 100: del TIMERS[fn].
RemoveTimer(T, fn) == Delete(T, fn)

\* Lines 100-101 in the other order: the handler is called, then its key is
\* deleted.
CallThenRemove(e, g, fn) ==
    [Apply(e, g) EXCEPT !.TIMERS = RemoveTimer(@, fn)]

\* Lines 100-101: the timer is deleted, then its handler is called.
RemoveThenCall(e, g, fn) ==
    Apply(e, [g EXCEPT !.TIMERS = RemoveTimer(@, fn)])

\* The keys left to the iterator after key k was inserted while keys remain
\* to visit: a compacting dict appends k and may drop leading keys when it
\* resizes its entries; a hash table puts k in a free slot anywhere.
AfterInsert(rest, k) ==
    IF checkedIter
    THEN Suffixes(Append(rest, k))
    ELSE {rest} \cup {SubSeq(rest, 1, i) \o <<k>> \o SubSeq(rest, i + 1, Len(rest)) :
                        i \in 0..Len(rest)}

\* Lines 98-99: the timer is not due.
TimersSkip ==
    /\ pc = "timers" /\ CanIter
    /\ ~Due(IterHead.target, now)
    /\ it' = Tail(it)
    /\ ev' = Ev("skip", Head(it), IterHead.id, IterHead.target, "", 0)
    /\ UNCHANGED <<RUNNING, INTERVALS, TIMERS, BUTTONS, DIOS, PRESSES, pad,
                   clock, pc, now, next_target, itUsed, itMod, checkedIter, calledNow, hist,
                   nRegs, pending, lastInv, firedIds, everInvoked, everSlept,
                   stopReq>>

\* Lines 98-101: a due timer is deleted and its handler called.
TimersFire(e) ==
    /\ pc = "timers" /\ CanIter
    /\ Due(IterHead.target, now)
    /\ IsReg(e) => CanReg
    /\ LET fn == Head(it)
           id == IterHead.id
           T1 == RemoveTimer(TIMERS, fn)
           g == RemoveThenCall(e, Globals, fn)
           inserted == KeySet(g.TIMERS) # KeySet(T1)
       IN  /\ ev' = [Ev("timer", fn, id, IterHead.target, e.op, 0)
                       EXCEPT !.again = (id \in firedIds),
                              !.reg = [fn |-> e.fn, arg |-> e.arg],
                              !.twice = (<<"T", fn>> \in calledNow)]
           /\ everInvoked' = TRUE
           /\ calledNow' = calledNow \cup {<<"T", fn>>}
           /\ firedIds' = firedIds \cup {id}
           /\ pending' = pending \ ({<<"T", fn>>} \cup Replaced(e))
           /\ IF Faults(e)
              THEN /\ pc' = "error"
                   /\ TIMERS' = T1
                   /\ UNCHANGED <<RUNNING, INTERVALS, nRegs, it, itMod, lastInv,
                                  stopReq>>
              ELSE /\ pc' = pc
                   /\ SetGlobals(g)
                   /\ lastInv' = Forget(e, lastInv)
                   /\ stopReq' = (stopReq \/ e.op = "stop")
                   /\ itMod' = (itMod \/ inserted)
                   /\ IF inserted
                      THEN it' \in AfterInsert(Tail(it), e.fn)
                      ELSE it' = Tail(it)
    /\ UNCHANGED <<BUTTONS, DIOS, PRESSES, pad, clock, now, next_target,
                   itUsed, checkedIter, hist, everSlept>>

\* Line 103: the loop over TIMERS is over.
TimersEnd ==
    /\ pc = "timers" /\ ~IterMustRaise /\ it = <<>>
    /\ pc' = "next"
    /\ itMod' = FALSE
    /\ calledNow' = {}
    /\ ev' = Ev("loopend", "", 0, 0, "", 0)
    /\ UNCHANGED <<RUNNING, INTERVALS, TIMERS, BUTTONS, DIOS, PRESSES, pad,
                   clock, now, next_target, it, itUsed, checkedIter, hist, nRegs,
                   pending, lastInv, firedIds, everInvoked, everSlept, stopReq>>

\* ------------------------------------------------------ next wake, sleep
\* Lines 104-105 without the periodic tasks.
TimersOnly(I, T) == {T[i].target : i \in 1..Len(T)}

\* Lines 104-105: the list handed to min().
WakeTimes(I, T) ==
    {I[i].last_called + I[i].interval : i \in 1..Len(I)}
    \cup {T[i].target : i \in 1..Len(T)}

\* Lines 103-106: next_target = min(...).
ComputeNext ==
    /\ pc = "next"
    /\ WakeTimes(INTERVALS, TIMERS) # {}
    /\ next_target' = MinOf(WakeTimes(INTERVALS, TIMERS))
    /\ pc' = "sleep"
    /\ ev' = Ev("next", "", 0, MinOf(WakeTimes(INTERVALS, TIMERS)), "", 0)
    /\ UNCHANGED <<RUNNING, INTERVALS, TIMERS, BUTTONS, DIOS, PRESSES, pad,
                   clock, now, it, itUsed, itMod, checkedIter, calledNow, hist, nRegs, pending,
                   lastInv, firedIds, everInvoked, everSlept, stopReq>>

\* Lines 103-106: min() of an empty list raises ValueError.
ComputeNextFails ==
    /\ pc = "next"
    /\ WakeTimes(INTERVALS, TIMERS) = {}
    /\ pc' = "error"
    /\ ev' = Ev("minerror", "", 0, 0, "ValueError", 0)
    /\ UNCHANGED <<RUNNING, INTERVALS, TIMERS, BUTTONS, DIOS, PRESSES, pad,
                   clock, now, next_target, it, itUsed, itMod, checkedIter, calledNow, hist,
                   nRegs, pending, lastInv, firedIds, everInvoked, everSlept,
                   stopReq>>

\* Lines 109-112: time remains, time.sleep(slp) is called.
Sleep ==
    /\ pc = "sleep"
    /\ next_target - clock > 0
    /\ pc' = "sleeping"
    /\ everSlept' = TRUE
    /\ ev' = Ev("sleep", "", 0, next_target, "", next_target - clock)
    /\ UNCHANGED <<RUNNING, INTERVALS, TIMERS, BUTTONS, DIOS, PRESSES, pad,
                   clock, now, next_target, it, itUsed, itMod, checkedIter, calledNow, hist,
                   nRegs, pending, lastInv, firedIds, everInvoked, stopReq>>

\* time.sleep returns, early or late; the loop of line 108 goes round.
SleepReturn ==
    /\ pc = "sleeping"
    /\ pc' = "sleep"
    /\ ev' = Ev("wake", "", 0, next_target, "", 0)
    /\ UNCHANGED <<RUNNING, INTERVALS, TIMERS, BUTTONS, DIOS, PRESSES, pad,
                   clock, now, next_target, it, itUsed, itMod, checkedIter, calledNow, hist,
                   nRegs, pending, lastInv, firedIds, everInvoked, everSlept,
                   stopReq>>

\* Lines 113-114: no time remains, back to the top of the outer loop.
SleepBreak ==
    /\ pc = "sleep"
    /\ ~(next_target - clock > 0)
    /\ pc' = "guard"
    /\ ev' = Ev("break", "", 0, next_target, "", 0)
    /\ UNCHANGED <<RUNNING, INTERVALS, TIMERS, BUTTONS, DIOS, PRESSES, pad,
                   clock, now, next_target, it, itUsed, itMod, checkedIter, calledNow, hist,
                   nRegs, pending, lastInv, firedIds, everInvoked, everSlept,
                   stopReq>>

\* ------------------------------------------------------------------ time
\* Time passes where the program goes on to read the clock: before start(),
\* while a due handler runs, and while the loop sleeps or checks the clock.
ClockRead ==
    \/ pc \in {"idle", "sleep", "sleeping"}
    \/ /\ pc = "intervals" /\ CanIter
       /\ Due(IterHead.last_called + IterHead.interval, now)
    \/ /\ pc = "timers" /\ CanIter
       /\ Due(IterHead.target, now)

Elapse ==
    /\ ClockRead
    /\ clock < MaxTime
    /\ clock' = clock + 1
    /\ ev' = Ev("elapse", "", 0, 0, "", 0)
    /\ UNCHANGED <<RUNNING, INTERVALS, TIMERS, BUTTONS, DIOS, PRESSES, pad, pc,
                   now, next_target, it, itUsed, itMod, checkedIter, calledNow, hist, nRegs,
                   pending, lastInv, firedIds, everInvoked, everSlept, stopReq>>

\* ------------------------------------------------------------------ Next
Next ==
    \/ \E fn \in Handlers : CallTick(fn)
    \/ \E fn \in Handlers, interval \in Intervals : CallEvery(interval, fn)
    \/ \E fn \in Handlers, target \in Targets : CallAt(target, fn)
    \/ \E fn \in Handlers, target \in Delays : CallAfter(target, fn)
    \/ CallStop
    \/ Elapse
    \/ Start
    \/ GuardHalt
    \/ BeginCycle
    \/ IterError
    \/ IntervalsSkip
    \/ \E e \in Effects : IntervalsFire(e)
    \/ IntervalsEnd
    \/ TimersSkip
    \/ \E e \in Effects : TimersFire(e)
    \/ TimersEnd
    \/ ComputeNext
    \/ ComputeNextFails
    \/ Sleep
    \/ SleepReturn
    \/ SleepBreak

\* An application that registers periodic tasks and one-shot timers.
Spec == Init /\ [][Next]_vars

PadNext ==
    \/ \E fn \in ToSet(Decorated), buttons \in Chords, action \in {DOWN, UP} :
          CallOn(buttons, action, fn)
    \/ Elapse
    \/ Start
    \/ GuardHalt
    \/ BeginCycle
    \/ IntervalsSkip
    \/ \E levels \in SUBSET TrackedPins :
          \E beh \in Behaviours(pad, levels) : IntervalsPoll(levels, beh)
    \/ IntervalsEnd
    \/ TimersEnd
    \/ ComputeNext
    \/ Sleep
    \/ SleepReturn
    \/ SleepBreak

\* An application that registers button bindings, on a board (digitalio
\* exists on CircuitPython alone, whose dicts are plain hash tables).
PadInit == Init /\ ~checkedIter
PadSpec == PadInit /\ [][PadNext]_vars

\* ================================================================ claims
BothEmpty == INTERVALS = <<>> /\ TIMERS = <<>>

\* C1: once stop() has been called, before start() or from inside a handler,
\* the loop halts at the top of the next outer cycle: no cycle begins, and so
\* no handler is invoked, while RUNNING is false.
C1_StopHaltsLoop == ~RUNNING => ev.kind # "begin"

\* C2: when stop() is called from inside a handler, everything due at the
\* cycle's sampled 'now' has fired when the cycle's firing ends, and the stop
\* takes effect afterwards: no further cycle begins.
C2_StopAfterCycle ==
    stopReq => /\ (pc = "next" => pending = {})
               /\ ev.kind # "begin"

\* C3: a periodic task with interval i that was not registered again since
\* its last invocation is invoked with a 'now' at least i after the 'now' of
\* that invocation.
C3_NeverEarly ==
    (ev.kind \in {"periodic", "poll"} /\ ev.arg >= 0) => now - ev.arg >= ev.target

\* C3 witness: a task with a positive interval fires a second time, late.
C3_Witness ==
    /\ ev.kind = "periodic" /\ ev.arg >= 0 /\ ev.target >= 1
    /\ now - ev.arg > ev.target

\* C4: a one-shot timer fires at most once, only in a cycle whose 'now' is
\* at or after its deadline, and is out of the timer table when it fires.
C4_TimerOnce ==
    ev.kind = "timer" =>
        /\ ~ev.again
        /\ now >= ev.target
        /\ \A i \in 1..Len(TIMERS) : TIMERS[i].id # ev.id

\* C4 witness: the second of two timers fires, after its deadline.
C4_Witness ==
    /\ ev.kind = "timer" /\ Cardinality(firedIds) = 2
    /\ now > ev.target

\* C5: when a cycle's firing has finished and left both tables empty, the
\* loop goes back to the guard and halts cleanly: with both tables empty it
\* ends in an error only from inside a firing loop (a handler's fault or a
\* failed dict iteration), never after the firing.
C5_EmptyHaltsClean ==
    (BothEmpty /\ pc = "error") => ev.kind \in {"periodic", "timer", "iterror"}

\* C6: start() with nothing registered halts at its first guard, with no
\* handler invoked and no sleep; the guard trips only when both tables are
\* empty, and then it does trip.
C6_NothingToDo ==
    /\ pc = "done" => (BothEmpty /\ ~everInvoked /\ ~everSlept /\ ev.kind = "halt")
    /\ ev.kind = "begin" => ~BothEmpty
    /\ (pc = "guard" /\ BothEmpty) => (ev.kind = "start" /\ ENABLED GuardHalt)

\* C6 witness: start() has returned after time went by before it.
C6_Witness == pc = "done" /\ clock > 0 /\ ~RUNNING

\* C7: on a poll whose raw sample differs from the previous one, only the
\* previous sample is updated: the held buttons stay and no handler is called.
C7_SettlingTick ==
    (ev.kind = "poll" /\ ev.raw # ev.prevDown) =>
        /\ pad.down = ev.raw
        /\ pad.pressed = ev.prevPressed
        /\ ev.invoked = <<>>
        /\ ~ev.emitted
        /\ ev.freshDown = <<>> /\ ev.freshUp = <<>>

\* C7 witness: a settling poll whose sample, had it been trusted, would have
\* called a handler.
C7_Witness ==
    /\ ev.kind = "poll" /\ ev.raw # ev.prevDown
    /\ \E i \in 1..Len(PRESSES) :
          /\ PRESSES[i].buttons # <<>>
          /\ \A j \in 1..Len(PRESSES[i].buttons) :
                /\ InSeq(PRESSES[i].buttons[j], ev.raw)
                /\ ~InSeq(PRESSES[i].buttons[j], ev.prevPressed)
          /\ PRESSES[i].action = DOWN

\* C8: on a poll whose raw sample equals the previous one, the fresh sets are
\* the differences between the sample and the held buttons, an event set is
\* produced exactly when they differ, and afterwards the held buttons are the
\* sample; after every poll the previous sample is the sample.
C8_StableSample ==
    ev.kind = "poll" =>
        /\ pad.down = ev.raw
        /\ ev.raw = ev.prevDown =>
              /\ ToSet(ev.freshDown) = ToSet(ev.raw) \ ToSet(ev.prevPressed)
              /\ ToSet(ev.freshUp) = ToSet(ev.prevPressed) \ ToSet(ev.raw)
              /\ ev.emitted <=> (ToSet(ev.raw) # ToSet(ev.prevPressed))
              /\ ToSet(pad.pressed) = ToSet(ev.raw)
              /\ Len(pad.pressed) = Len(ev.raw)

\* C8 witness: one button is released and another pressed on the same poll.
C8_Witness ==
    /\ ev.kind = "poll" /\ ev.emitted
    /\ ev.freshDown # <<>> /\ ev.freshUp # <<>>

\* The bindings whose chord is wholly in the poll's fresh set.
Matching(i) == Matches(PRESSES[i], ev.freshDown, ev.freshUp)
Calls == ev.invoked
Propagated(c) == c.beh = "PROPOGATE"

\* C9: within a poll the handlers are called in registration order; a call
\* that returns a value other than the sentinel (or faults) is the last one,
\* and up to it every matching binding is called.
C9_ShortCircuit ==
    ev.kind = "poll" =>
        /\ \A k \in 1..Len(Calls) : k < Len(Calls) =>
              /\ Calls[k].idx < Calls[k + 1].idx
              /\ Propagated(Calls[k])
        /\ \A i \in 1..Len(PRESSES) :
              (/\ ev.emitted
               /\ Matching(i)
               /\ \A k \in 1..Len(Calls) :
                     Calls[k].idx < i => Propagated(Calls[k]))
              => \E k \in 1..Len(Calls) : Calls[k].idx = i
        /\ \A k \in 1..Len(Calls) : ev.emitted /\ Matching(Calls[k].idx)

\* C9 witness: bindings (A, B)/DOWN then (A)/DOWN, A and B freshly pressed
\* together, the first handler returns another value: the second is not called.
C9_Witness ==
    /\ ev.kind = "poll"
    /\ Len(PRESSES) = 2
    /\ PRESSES[1].buttons = <<"A", "B">> /\ PRESSES[1].action = DOWN
    /\ PRESSES[2].buttons = <<"A">> /\ PRESSES[2].action = DOWN
    /\ ev.freshDown = <<"A", "B">>
    /\ Calls = <<[idx |-> 1, beh |-> "Other"]>>

\* C10 as stated: a called handler that returns the sentinel or None does not
\* end the dispatch: a matching binding after it is called.
C10_NoneContinues ==
    ev.kind = "poll" =>
        \A k \in 1..Len(Calls) :
            (/\ Calls[k].beh \in {"PROPOGATE", "None", "stop"}
             /\ \E i \in 1..Len(PRESSES) : i > Calls[k].idx /\ Matching(i))
            => k < Len(Calls)

\* C10 amended: a called handler that returns the sentinel does not end the
\* dispatch, a matching binding after it is called; a handler that returns
\* None ends it like any other value.
C10_SentinelContinues ==
    ev.kind = "poll" =>
        \A k \in 1..Len(Calls) :
            /\ (/\ Propagated(Calls[k])
                /\ \E i \in 1..Len(PRESSES) : i > Calls[k].idx /\ Matching(i))
               => k < Len(Calls)
            /\ Calls[k].beh \in {"None", "stop"} => k = Len(Calls)

\* C10 witness: a handler returned None and the matching binding after it
\* was not called.
C10_Witness ==
    /\ ev.kind = "poll"
    /\ Calls = <<[idx |-> 1, beh |-> "None"]>>
    /\ Len(PRESSES) = 2 /\ Matching(2)

\* The bindings the loop over PRESSES reaches on the last poll: every call
\* before them returned the sentinel.
Reached(i) ==
    /\ ev.emitted
    /\ \A k \in 1..Len(Calls) : Calls[k].idx < i => Propagated(Calls[k])
Invoked(i) == \E k \in 1..Len(Calls) : Calls[k].idx = i
Chord(i) == ToSet(PRESSES[i].buttons)

\* C11: a binding reached during dispatch is invoked if and only if its whole
\* chord is in fresh_down (a DOWN binding) or in fresh_up (an UP binding) on
\* that poll; the pins of an invoked DOWN binding all went from not held to
\* held on this one poll, those of an UP binding from held to not held.
C11_WholeChordFresh ==
    ev.kind = "poll" =>
        \A i \in 1..Len(PRESSES) :
            /\ Reached(i) =>
                  (Invoked(i) <=>
                     \/ PRESSES[i].action = DOWN /\ Chord(i) \subseteq ToSet(ev.freshDown)
                     \/ PRESSES[i].action = UP /\ Chord(i) \subseteq ToSet(ev.freshUp))
            /\ (Invoked(i) /\ PRESSES[i].action = DOWN) =>
                  /\ Chord(i) \cap ToSet(ev.prevPressed) = {}
                  /\ Chord(i) \subseteq ToSet(pad.pressed)
            /\ (Invoked(i) /\ PRESSES[i].action = UP) =>
                  /\ Chord(i) \subseteq ToSet(ev.prevPressed)
                  /\ Chord(i) \cap ToSet(pad.pressed) = {}

\* C11 witness: A is held already when B becomes held: the binding of the
\* chord (A, B) is reached and not invoked, the binding of (B) is invoked.
C11_Witness ==
    /\ ev.kind = "poll"
    /\ Len(PRESSES) = 2
    /\ PRESSES[1].buttons = <<"A", "B">> /\ PRESSES[1].action = DOWN
    /\ PRESSES[2].buttons = <<"B">> /\ PRESSES[2].action = DOWN
    /\ ev.prevPressed = <<"A">> /\ ev.freshDown = <<"B">>
    /\ Reached(1) /\ ~Invoked(1) /\ Invoked(2)

\* C12: a binding with an empty chord is rejected when it is registered: no
\* binding of PRESSES has an empty chord, and no handler is called for one.
C12_EmptyChordRejected ==
    /\ \A i \in 1..Len(PRESSES) : PRESSES[i].buttons # <<>>
    /\ ev.kind = "poll" =>
          \A k \in 1..Len(Calls) : PRESSES[Calls[k].idx].buttons # <<>>

\* C13: a handler's fault is not caught: the step that calls a faulting
\* handler ends the loop, nothing runs afterwards, and a one-shot timer whose
\* handler faulted is out of the timer table and has fired this once only.
C13_FaultEndsLoop ==
    /\ (ev.kind \in {"periodic", "timer"} /\ ev.op = "raise") => pc = "error"
    /\ (ev.kind = "timer" /\ ev.op = "raise") =>
          /\ ev.fn \notin KeySet(TIMERS)
          /\ \A i \in 1..Len(TIMERS) : TIMERS[i].id # ev.id
          /\ ~ev.again
    /\ pc = "error" => ~ENABLED Next

\* C13 witness: of two timers due together the first one's handler faults;
\* the other stays in the table, unfired.
C13_Witness ==
    /\ ev.kind = "timer" /\ ev.op = "raise" /\ pc = "error"
    /\ Len(TIMERS) = 1 /\ TIMERS[1].target <= now
    /\ firedIds = {ev.id}

\* The timer made by the last registration call.
Newest(fn) ==
    {i \in 1..Len(TIMERS) : TIMERS[i].fn = fn /\ TIMERS[i].id = nRegs}

\* C14: after(delay, fn) stores the deadline (clock at the call) + delay,
\* whether it is called before start() or from a handler, and the deadline
\* of a registered timer never changes while the timer is in the table.
C14_DeadlineFixed ==
    /\ [](/\ ev.kind = "after" =>
               \E i \in Newest(ev.fn) : TIMERS[i].target = clock + ev.arg
          /\ (ev.kind \in {"periodic", "timer"} /\ ev.op = "after") =>
               \E i \in Newest(ev.reg.fn) : TIMERS[i].target = clock + ev.reg.arg)
    /\ [][\A i \in 1..Len(TIMERS) : \A j \in 1..Len(TIMERS') :
              TIMERS[i].id = TIMERS'[j].id => TIMERS'[j].target = TIMERS[i].target]_vars

\* C14 witness: the one timer of the program, registered by after() before
\* start() (its deadline is none at() is called with), fires in a cycle that
\* began after its deadline.
C14_Witness ==
    /\ ev.kind = "timer" /\ nRegs = 1
    /\ ev.target \notin Targets
    /\ now > ev.target

IsPrefix(s, t) == Len(s) <= Len(t) /\ SubSeq(t, 1, Len(s)) = s

\* C15: BUTTONS holds each pin once, DIOS holds one handle for each pin of
\* BUTTONS at the same index, configured as an input pulled down, and every
\* pin of a registered chord is tracked; a registration only appends to the
\* two lists, so a pin is configured at its first reference alone.
C15_PinsOnce ==
    /\ [](/\ \A i, j \in 1..Len(BUTTONS) : BUTTONS[i] = BUTTONS[j] => i = j
          /\ Len(DIOS) = Len(BUTTONS)
          /\ \A i \in 1..Len(DIOS) :
                /\ DIOS[i].pin = BUTTONS[i]
                /\ DIOS[i].direction = "INPUT" /\ DIOS[i].pull = "DOWN"
          /\ \A i \in 1..Len(PRESSES) : Chord(i) \subseteq ToSet(BUTTONS))
    /\ [][IsPrefix(BUTTONS, BUTTONS') /\ IsPrefix(DIOS, DIOS')]_vars

\* C15 witness: pin A is named twice in one chord and again in a later one.
C15_Witness ==
    /\ Len(PRESSES) = 2
    /\ PRESSES[1].buttons = <<"A", "A">>
    /\ PRESSES[2].buttons = <<"A", "B">>
    /\ BUTTONS = <<"A", "B">>

NoDuplicateKey(d) == \A i, j \in 1..Len(d) : d[i].fn = d[j].fn => i = j

\* The tables hold one entry for a handler, and a registration call leaves
\* the entry it describes.
C16_Replaces ==
    /\ NoDuplicateKey(INTERVALS) /\ NoDuplicateKey(TIMERS)
    /\ ev.kind \in {"tick", "every"} =>
          Lookup(INTERVALS, ev.fn) =
              [fn |-> ev.fn, interval |-> ev.arg, last_called |-> 0]
    /\ ev.kind \in {"at", "after"} =>
          /\ Lookup(TIMERS, ev.fn).target = ev.target
          /\ Lookup(TIMERS, ev.fn).id = ev.id

C17_AllDueFire ==
    (pc = "next" \/ ev.kind = "iterror") => pending = {}

\* C18: next_target is the least of last_called + interval over the periodic
\* tasks and of the deadlines of the timers; the loop sleeps only while the
\* clock is short of it, for the time that is left, checks the clock again
\* after every sleep, and samples 'now' for a cycle only when the clock has
\* reached it; with a task of interval 0 registered it never sleeps.
C18_WakeAtMin ==
    /\ ev.kind = "next" =>
          /\ \A i \in 1..Len(INTERVALS) :
                next_target <= INTERVALS[i].last_called + INTERVALS[i].interval
          /\ \A i \in 1..Len(TIMERS) : next_target <= TIMERS[i].target
          /\ \/ \E i \in 1..Len(INTERVALS) :
                   next_target = INTERVALS[i].last_called + INTERVALS[i].interval
             \/ \E i \in 1..Len(TIMERS) : next_target = TIMERS[i].target
    /\ ev.kind = "sleep" => (clock < next_target /\ ev.arg = next_target - clock)
    /\ ev.kind = "wake" => pc = "sleep"
    /\ ev.kind = "break" => clock >= next_target
    /\ ev.kind = "begin" => now >= next_target
    /\ pc = "sleeping" => \A i \in 1..Len(INTERVALS) : INTERVALS[i].interval # 0

\* C18 witness: a sleep has returned early, with a timer and a periodic task
\* registered: the clock is short of next_target and is checked again.
C18_Witness ==
    /\ ev.kind = "wake" /\ clock < next_target
    /\ INTERVALS # <<>> /\ TIMERS # <<>>

\* The last step fired a timer whose handler registered itself again.
SelfRegistered ==
    /\ ev.kind = "timer" /\ ev.op \in {"at", "after"}
    /\ ev.reg.fn = ev.fn

\* C19: when a timer's handler registers itself again with at() or after()
\* during its call, the timer that fired is gone and the table holds, for
\* this handler, the one new timer with the deadline just given, not fired
\* yet; a timer registration never fires a second time.
C19_NoSelfCollision ==
    /\ SelfRegistered =>
          \E i \in 1..Len(TIMERS) :
              /\ TIMERS[i].fn = ev.fn
              /\ TIMERS[i].id = nRegs /\ TIMERS[i].id # ev.id
              /\ TIMERS[i].id \notin firedIds
              /\ TIMERS[i].target =
                    IF ev.op = "at" THEN ev.reg.arg ELSE clock + ev.reg.arg
              /\ \A j \in 1..Len(TIMERS) : TIMERS[j].fn = ev.fn => j = i
    /\ ev.kind = "timer" =>
          /\ ~ev.again
          /\ \A i \in 1..Len(TIMERS) : TIMERS[i].id # ev.id

\* C19 witness: a handler called late has registered itself again for later.
C19_Witness ==
    /\ SelfRegistered /\ ev.op = "after"
    /\ now > ev.target
    /\ Lookup(TIMERS, ev.fn).target > clock

\* The held buttons after poll k, and the raw sample before it (a new
\* Gamepad has the empty sample for its previous one).
HeldAfter(k) == IF k < Len(hist) THEN hist[k + 1].held ELSE pad.pressed
RawBefore(k) == IF k = 1 THEN <<>> ELSE hist[k - 1].raw

\* C20: when the raw samples of four consecutive polls are s, s', s, s with
\* s' # s, and the held buttons were s before them, no handler is called on
\* any of the four polls and the held buttons are s after each; on any poll
\* the held buttons change, or a handler is called, only if the raw sample
\* equals the raw sample of the poll before.
C20_BounceRejected ==
    /\ \A k \in 1..(Len(hist) - 3) :
          (/\ hist[k + 1].raw # hist[k].raw
           /\ hist[k + 2].raw = hist[k].raw
           /\ hist[k + 3].raw = hist[k].raw
           /\ ToSet(hist[k].held) = ToSet(hist[k].raw))
          => \A j \in k..(k + 3) :
                /\ ~hist[j].called
                /\ ToSet(HeldAfter(j)) = ToSet(hist[k].raw)
    /\ \A k \in 1..Len(hist) :
          (hist[k].called \/ HeldAfter(k) # hist[k].held)
          => hist[k].raw = RawBefore(k)

\* C20 witness: with nothing held and a press binding on A, button A reads
\* high on one poll between polls that read nothing.
C20_Witness ==
    /\ Len(hist) = 4
    /\ hist[1].raw = <<>> /\ hist[2].raw = <<"A">>
    /\ hist[3].raw = <<>> /\ hist[4].raw = <<>>
    /\ \E i \in 1..Len(PRESSES) :
          PRESSES[i].buttons = <<"A">> /\ PRESSES[i].action = DOWN

====
